---- MODULE Spec2Model ----
(***************************************************************************)
(* Signaling server (join / relay / disconnect), the streaming             *)
(* speech-to-text session manager and the browser negotiation client of    *)
(* the 1:1 WebRTC caption application.                                     *)
(*                                                                         *)
(* A socket is one browser page: it connects once, may join the default    *)
(* room, negotiates through the relay and disconnects once.                *)
(*                                                                         *)
(* Specifications over the same variables:                                 *)
(*   Spec      room, relay and offer / answer, NSock pages                 *)
(*   SpecIce   Spec with trickled ICE candidates                           *)
(*   SpecPair  offer / answer of NSttSock pages, nobody disconnects        *)
(*   SpecRelay the relay fed with payloads that lack their field           *)
(*   SpecStt   the recognition streams of NSttSock sockets                 *)
(*   SpecTime  SpecStt with a clock: timers run when their time is up      *)
(*   SpecCap   streams, pages and the caption data channel of a pair       *)
(***************************************************************************)
EXTENDS Integers, Sequences, FiniteSets, TLC

\* ---- bounds of the model ------------------------------------------------
NSock == 3          \* sockets of the signaling specification
NSttSock == 2       \* sockets of the pair and transcription specifications
MaxStreams == 3     \* recognition streams created in one run
MaxInbox == 4       \* undelivered server->client events per socket
MaxCand == 1        \* ICE candidates one endpoint emits
MaxPending == 1     \* undelivered transcript events per socket
MaxMalformed == 1   \* undelivered payloads without their field, all sockets together
MaxSamples == 2     \* samples in one audioData buffer
MaxWrites == 1      \* non-empty buffers written to one recognition stream
MaxOutside == 1     \* unhandled signaling events while a socket outside the room emits one
MaxSigns == 3       \* entries of the deaf page's aslHistory in one run
ClockStep == 800    \* milliseconds that pass in one step of the sign pages' clock

Sockets == 1..NSock

\* ---- program constants ---------------------------------------------------
RoomCapacity == 2     \* a 1:1 room
JoinEmits == 2        \* the page emits 'join' when created and again on 'connect'
StreamTimeout == 2    \* STREAM_TIMEOUT (4.5 min), in ticks of the model's clock
ASL_DEBOUNCE == 800   \* deaf.js: milliseconds between two accepted predictions
RepeatWindow == 1000  \* hearing.js: milliseconds within which a repeated sign is not shown again
HistoryLimit == 20    \* deaf.js: entries kept in aslHistory
PredictionsLimit == 15 \* hearing.js: entries kept in aslPredictions
DeafPage == 1         \* the socket whose page is deaf.html (initSocket('deaf'))
HearingPage == 2      \* the socket whose page is hearing.html (initSocket('hearing'))

VARIABLES
    conn,             \* socket lifecycle: "new" | "connected" | "closed"
    room,             \* io.sockets.adapter.rooms.get(DEFAULT_ROOM), in insertion order
    inbox,            \* events emitted to each socket and not yet handled by its page
    recognizeStreams, \* SpeechToTextService.recognizeStreams: socket id -> entry
    streams,          \* the recognizeStreams created for each socket id, oldest first
    timers,           \* pending setTimeout handles: <<socket id, closure>> that armed it
    timeLeft,         \* ticks until each pending timer expires (StreamTimeout when not armed)
    sig,              \* pc.signalingState of each page
    makingOffer,      \* makingOffer of each page
    ignoreOffer,      \* ignoreOffer of each page
    localDesc,        \* pc.localDescription (NoDesc = null)
    remoteDesc,       \* pc.remoteDescription (NoDesc = null)
    offerTask,        \* position of the page's makeOffer call
    answerTask,       \* position of the page's signal:offer handler
    applied,          \* candidates added to the page's pc, in order
    iceErrors,        \* candidates whose addIceCandidate was rejected (logged)
    candSent,         \* candidates the page's pc has produced so far
    joinsSent,        \* 'join' events the page has emitted
    pc,               \* TRUE once a handler of the page has found pc assigned
    dataChannel,      \* the peer the page's open 'captions' channel leads to (0 = not open)
    chan,             \* captions sent over the data channel to each page, not yet received
    captions,         \* each page's caption surfaces and the surface window.transcriptTimeout clears
    lastASLPrediction, \* deaf.js lastASLPrediction ("" at load)
    aslHistory,       \* deaf.js aslHistory, the predictions in order
    aslIdle,          \* milliseconds since the latest aslHistory entry, up to RepeatWindow
    aslPredictions,   \* hearing.js aslPredictions, the texts in order
    aslShownIdle      \* milliseconds since the latest aslPredictions entry, up to RepeatWindow

serverVars == <<conn, room, inbox>>
sttVars == <<recognizeStreams, streams, timers, timeLeft>>
clientVars == <<sig, makingOffer, ignoreOffer, localDesc, remoteDesc,
                offerTask, answerTask, applied, iceErrors, candSent, joinsSent>>
pcVars == <<pc, dataChannel, chan, captions>>
aslVars == <<lastASLPrediction, aslHistory, aslIdle, aslPredictions, aslShownIdle>>
vars == <<conn, room, inbox, recognizeStreams, streams, timers, timeLeft,
          sig, makingOffer, ignoreOffer, localDesc, remoteDesc,
          offerTask, answerTask, applied, iceErrors, candSent, joinsSent,
          pc, dataChannel, chan, captions,
          lastASLPrediction, aslHistory, aslIdle, aslPredictions, aslShownIdle>>

\* ---- helpers ---------------------------------------------------------------
Range(q) == {q[i] : i \in 1..Len(q)}

\* faulty variant: the closing socket stays in its rooms
WithoutNothing(q, x) == q

\* faulty variant: the member that joined last is removed, whoever leaves
WithoutLast(q, x) == IF q = <<>> THEN <<>> ELSE SubSeq(q, 1, Len(q) - 1)

RECURSIVE Without(_, _)
Without(q, x) ==
    IF q = <<>> THEN <<>>
    ELSE IF Head(q) = x THEN Without(Tail(q), x)
    ELSE <<Head(q)>> \o Without(Tail(q), x)

RECURSIVE CountType(_, _)
CountType(q, t) ==
    IF q = <<>> THEN 0
    ELSE (IF Head(q).type = t THEN 1 ELSE 0) + CountType(Tail(q), t)

\* ---- server: room registry -------------------------------------------------
\* faulty variant: the size is read one too small
getRoomSizeOffByOne(r) == IF Len(r) = 0 THEN 0 ELSE Len(r) - 1

getRoomSize(r) == Len(r)

\* socket.join(DEFAULT_ROOM): the room is a Set, joining twice keeps one entry
SocketJoin(r, s) == IF s \in Range(r) THEN r ELSE Append(r, s)

Msg(t) == [type |-> t]

\* emit the events of `out` (socket id -> sequence) to the connected sockets
Deliver(box, out) ==
    [s \in Sockets |-> IF conn[s] = "connected" THEN box[s] \o out[s] ELSE box[s]]

NoOut == [s \in Sockets |-> <<>>]

Fits(out) == \A s \in Sockets : Len(inbox[s]) + Len(out[s]) <= MaxInbox

\* faulty variant: the sender gets its own message back (io.to)
RelayOutAll(s, m) ==
    [t \in Sockets |-> IF t \in Range(room) THEN <<m>> ELSE <<>>]

\* socket.to(DEFAULT_ROOM).emit(m): every room member except the sender
RelayOut(s, m) ==
    [t \in Sockets |-> IF t \in Range(room) /\ t # s THEN <<m>> ELSE <<>>]

\* session descriptions: the kind and the endpoint that produced it
NoDesc == [kind |-> "none", owner |-> 0]
Sdp(kind, s) == [kind |-> kind, owner |-> s]

\* a signaling payload that lacks its required field (payload.sdp, or
\* payload.candidate, is undefined)
NoCandidate == <<0, 0>>
Malformed(type) ==
    IF type = "signal:ice-candidate"
    THEN [type |-> type, candidate |-> NoCandidate]
    ELSE [type |-> type, sdp |-> NoDesc]

SignalTypes == {"signal:offer", "signal:answer", "signal:ice-candidate"}

\* ---- speech-to-text service ---------------------------------------------------
\* a page with no caption shown and no timeout pending
NoCaptions == [localCaptions |-> FALSE, remoteCaptions |-> FALSE, transcriptTimeout |-> {}]

NoEntry == [stream |-> -1, socket |-> FALSE, restartTimer |-> 0]
HasEntry(m, s) == m[s].stream # -1

\* faulty variant: the entry is deleted without stream.destroy()
cleanupKeepsStream(sv, s) ==
    IF ~HasEntry(sv.map, s) THEN sv
    ELSE [sv EXCEPT !.map[s] = NoEntry]

\* cleanup(socketId) on the service state sv = [map, streams, timers]: clear
\* the timer the entry names, destroy the entry's stream, delete the entry
\* faulty variant: the teardown of one socket id cancels the pending timers of
\* every socket id
cleanupEveryTimer(sv, s) ==
    IF ~HasEntry(sv.map, s) THEN sv
    ELSE LET e == sv.map[s]
             st == IF e.stream > 0 /\ ~sv.streams[s][e.stream].destroyed
                   THEN [sv.streams EXCEPT ![s][e.stream].destroyed = TRUE]
                   ELSE sv.streams
         IN [map |-> [sv.map EXCEPT ![s] = NoEntry], streams |-> st, timers |-> {}]

\* faulty variant: an entry whose stream is still live is kept, and only its
\* stream destroyed
cleanupInTwoCalls(sv, s) ==
    IF ~HasEntry(sv.map, s) THEN sv
    ELSE LET e == sv.map[s]
         IN IF e.stream > 0 /\ ~sv.streams[s][e.stream].destroyed
            THEN [sv EXCEPT !.streams[s][e.stream].destroyed = TRUE]
            ELSE [sv EXCEPT !.map[s] = NoEntry]

cleanup(sv, s) ==
    IF ~HasEntry(sv.map, s) THEN sv
    ELSE LET e == sv.map[s]
             tm == IF e.restartTimer # 0 THEN sv.timers \ {e.restartTimer} ELSE sv.timers
             st == IF e.stream > 0 /\ ~sv.streams[s][e.stream].destroyed
                   THEN [sv.streams EXCEPT ![s][e.stream].destroyed = TRUE]
                   ELSE sv.streams
         IN [map |-> [sv.map EXCEPT ![s] = NoEntry], streams |-> st, timers |-> tm]

\* createRecognizeStream(socketId); `throws` = client.streamingRecognize throws.
\* The entry timeLeft in the registry is the object of the last recognizeStreams.set:
\* { stream, socket: null }, which has no restartTimer; the timer handle lives
\* in the closure's own streamInfo object (see StreamData, TimerFire).  When the
\* call throws, the entry is the first streamInfo (stream and timer null).
createRecognizeStream(sv, s, origin, throws) ==
    LET c == cleanup(sv, s)
        k == Len(c.streams[s]) + 1
    IN IF throws
       THEN [c EXCEPT !.map[s] = [stream |-> 0, socket |-> FALSE, restartTimer |-> 0]]
       ELSE [map |-> [c.map EXCEPT ![s] = [stream |-> k, socket |-> FALSE,
                                            restartTimer |-> 0]],
             streams |-> [c.streams EXCEPT ![s] =
                             Append(@, [destroyed |-> FALSE, origin |-> origin,
                                        age |-> 0, ended |-> FALSE,
                                        written |-> <<>>])],
             timers |-> c.timers]

\* bindSocketToStream(socketId, socket)
bindSocketToStream(sv, s) ==
    IF HasEntry(sv.map, s)
    THEN [sv EXCEPT !.map[s].socket = TRUE]
    ELSE LET c == createRecognizeStream(sv, s, "connect", FALSE)
         IN [c EXCEPT !.map[s].socket = TRUE]

Service == [map |-> recognizeStreams, streams |-> streams, timers |-> timers]

SetService(sv) ==
    /\ recognizeStreams' = sv.map
    /\ streams' = sv.streams
    /\ timers' = sv.timers

LiveStreams(s) == {k \in 1..Len(streams[s]) : ~streams[s][k].destroyed}

RECURSIVE SumLen(_, _)
SumLen(f, S) ==
    IF S = {} THEN 0
    ELSE LET x == CHOOSE y \in S : TRUE IN Len(f[x]) + SumLen(f, S \ {x})

StreamsCreated == SumLen(streams, Sockets)

\* ---- speech-to-text service: audio ingestion ------------------------------------------
\* the int16 samples the audio inputs are made of
SampleValues == {-2, 256}

Pcm == UNION {[1..n -> SampleValues] : n \in 0..MaxSamples}

\* faulty variant: the high byte comes first
int16BytesHighFirst(x) == <<(x % 65536) \div 256, (x % 65536) % 256>>

\* the two bytes of one element of Int16Array.from(...).buffer: 16-bit two's
\* complement, low byte first (the byte order of the hosts node runs on)
int16Bytes(x) == <<(x % 65536) % 256, (x % 65536) \div 256>>

RECURSIVE Int16ArrayBytes(_)
Int16ArrayBytes(q) ==
    IF q = <<>> THEN <<>> ELSE int16Bytes(Head(q)) \o Int16ArrayBytes(Tail(q))

\* Buffer.from(array of numbers): every entry is taken & 255
BufferFromArray(q) == [i \in 1..Len(q) |-> q[i] % 256]

\* the audio buffer processAudio writes for data.buffer; <<>> is the empty buffer
audioBuffer(buffer) ==
    IF buffer.kind = "array" THEN Int16ArrayBytes(buffer.items)
    ELSE IF buffer.kind = "wrapper" THEN BufferFromArray(buffer.items)
    ELSE buffer.items

\* the wire encodings of the samples pcm: the array of samples the page sends,
\* the {type: 'Buffer', data} wrapper of its bytes and the binary Buffer of
\* its bytes (16-bit little-endian: sample = low + 256 * high, modulo 2^16)
LittleEndian(pcm) ==
    [i \in 1..(2 * Len(pcm)) |->
        LET x == pcm[(i + 1) \div 2]
            u == IF x < 0 THEN x + 65536 ELSE x
        IN IF i % 2 = 1 THEN u - 256 * (u \div 256) ELSE u \div 256]

Wire(enc, pcm) ==
    IF enc = "array" THEN [kind |-> "array", items |-> pcm]
    ELSE [kind |-> enc, items |-> LittleEndian(pcm)]

\* data.buffer of an audioData message: one of the three encodings, or absent
AudioInputs ==
    {Wire(enc, pcm) : enc \in {"array", "wrapper", "buffer"}, pcm \in Pcm}
        \cup {[kind |-> "none", items |-> <<>>]}

\* faulty variant: an ended stream still counts as writable
WritableUnlessDestroyed(sv, s) ==
    /\ HasEntry(sv.map, s)
    /\ sv.map[s].stream > 0
    /\ ~sv.streams[s][sv.map[s].stream].destroyed

\* streamInfo && streamInfo.stream && streamInfo.stream.writable
Writable(sv, s) ==
    /\ HasEntry(sv.map, s)
    /\ sv.map[s].stream > 0
    /\ ~sv.streams[s][sv.map[s].stream].destroyed
    /\ ~sv.streams[s][sv.map[s].stream].ended

\* ---- initial state ----------------------------------------------------------------
Init ==
    /\ conn = [s \in Sockets |-> "new"]
    /\ room = <<>>
    /\ inbox = [s \in Sockets |-> <<>>]
    /\ recognizeStreams = [s \in Sockets |-> NoEntry]
    /\ streams = [s \in Sockets |-> <<>>]
    /\ timers = {}
    /\ timeLeft = [x \in Sockets \X (1..MaxStreams) |-> StreamTimeout]
    /\ sig = [s \in Sockets |-> "stable"]
    /\ makingOffer = [s \in Sockets |-> FALSE]
    /\ ignoreOffer = [s \in Sockets |-> FALSE]
    /\ localDesc = [s \in Sockets |-> NoDesc]
    /\ remoteDesc = [s \in Sockets |-> NoDesc]
    /\ offerTask = [s \in Sockets |-> "idle"]
    /\ answerTask = [s \in Sockets |-> "idle"]
    /\ applied = [s \in Sockets |-> <<>>]
    /\ iceErrors = [s \in Sockets |-> {}]
    /\ candSent = [s \in Sockets |-> 0]
    /\ joinsSent = [s \in Sockets |-> 0]
    /\ pc = [s \in Sockets |-> FALSE]
    /\ dataChannel = [s \in Sockets |-> 0]
    /\ chan = [s \in Sockets |-> <<>>]
    /\ captions = [s \in Sockets |-> NoCaptions]
    /\ lastASLPrediction = ""
    /\ aslHistory = <<>>
    /\ aslIdle = 0
    /\ aslPredictions = <<>>
    /\ aslShownIdle = 0

\* the page of socket s is gone with its connection: its state no longer exists,
\* and the data channels that led to it are closed
PageGone(s) ==
    /\ sig' = [sig EXCEPT ![s] = "stable"]
    /\ makingOffer' = [makingOffer EXCEPT ![s] = FALSE]
    /\ ignoreOffer' = [ignoreOffer EXCEPT ![s] = FALSE]
    /\ localDesc' = [localDesc EXCEPT ![s] = NoDesc]
    /\ remoteDesc' = [remoteDesc EXCEPT ![s] = NoDesc]
    /\ offerTask' = [offerTask EXCEPT ![s] = "idle"]
    /\ answerTask' = [answerTask EXCEPT ![s] = "idle"]
    /\ applied' = [applied EXCEPT ![s] = <<>>]
    /\ iceErrors' = [iceErrors EXCEPT ![s] = {}]
    /\ candSent' = [candSent EXCEPT ![s] = 0]
    /\ joinsSent' = [joinsSent EXCEPT ![s] = 0]
    /\ pc' = [pc EXCEPT ![s] = FALSE]
    /\ dataChannel' = [t \in Sockets |->
                          IF t = s \/ dataChannel[t] = s THEN 0 ELSE dataChannel[t]]
    /\ chan' = [chan EXCEPT ![s] = <<>>]
    /\ captions' = [captions EXCEPT ![s] = NoCaptions]
    /\ lastASLPrediction' = IF s = DeafPage THEN "" ELSE lastASLPrediction
    /\ aslHistory' = IF s = DeafPage THEN <<>> ELSE aslHistory
    /\ aslIdle' = IF s = DeafPage THEN 0 ELSE aslIdle
    /\ aslPredictions' = IF s = HearingPage THEN <<>> ELSE aslPredictions
    /\ aslShownIdle' = IF s = HearingPage THEN 0 ELSE aslShownIdle

\* ---- server handlers -----------------------------------------------------------------
\* io.on('connection'): create the recognizer of the socket and bind it
\* (socket ids are names: they are handed out in increasing order)
Connect(s) ==
    /\ conn[s] = "new"
    /\ \A t \in 1..(s - 1) : conn[t] # "new"
    /\ StreamsCreated < MaxStreams
    /\ conn' = [conn EXCEPT ![s] = "connected"]
    /\ SetService(bindSocketToStream(
                      createRecognizeStream(Service, s, "connect", FALSE), s))
    /\ UNCHANGED <<room, inbox, timeLeft>>
    /\ UNCHANGED clientVars
    /\ UNCHANGED pcVars
    /\ UNCHANGED aslVars

\* the socket closes: it leaves its rooms, then the 'disconnect' handlers run
\* (the cleanup registered by bindSocketToStream, then the server's own)
Disconnect(s) ==
    /\ conn[s] = "connected"
    /\ LET left == Without(room, s)
           out == [t \in Sockets |->
                      IF t \in Range(left) THEN <<Msg("peer_disconnected")>> ELSE <<>>]
       IN /\ Fits(out)
          /\ conn' = [conn EXCEPT ![s] = "closed"]
          /\ room' = left
          /\ inbox' = [t \in Sockets |->
                          IF t = s THEN <<>>
                          ELSE IF t \in Range(left) THEN inbox[t] \o out[t]
                          ELSE inbox[t]]
    /\ SetService(cleanup(cleanup(Service, s), s))
    /\ UNCHANGED timeLeft
    /\ PageGone(s)

\* faulty variant: 'initiate' goes to the whole room
JoinEventsInitiateRoom(joined, s) ==
    LET newSize == getRoomSize(joined)
        j == [type |-> "joined", peers |-> newSize]
    IN IF newSize = 2
       THEN [t \in Sockets |->
                IF t = s THEN <<j, Msg("ready"), Msg("initiate")>>
                ELSE IF t \in Range(joined) THEN <<Msg("ready"), Msg("initiate")>>
                ELSE <<>>]
       ELSE [NoOut EXCEPT ![s] = <<j>>]

\* faulty variant: 'ready' goes to the room without the joiner (socket.to)
JoinEventsReadyOthers(joined, s) ==
    LET newSize == getRoomSize(joined)
        j == [type |-> "joined", peers |-> newSize]
    IN IF newSize = 2
       THEN [t \in Sockets |->
                IF t = s THEN <<j, Msg("initiate")>>
                ELSE IF t \in Range(joined) THEN <<Msg("ready")>>
                ELSE <<>>]
       ELSE [NoOut EXCEPT ![s] = <<j>>]

\* the events an admitted join emits: 'joined' to the joiner and, when the room
\* is now full, 'ready' to the room and 'initiate' to the joiner
\* faulty variant: 'joined' reports the room size before the admission
JoinEventsSizeBefore(joined, s) ==
    LET newSize == getRoomSize(joined)
        j == [type |-> "joined", peers |-> newSize - 1]
    IN IF newSize = 2
       THEN [t \in Sockets |->
                IF t = s THEN <<j, Msg("ready"), Msg("initiate")>>
                ELSE IF t \in Range(joined) THEN <<Msg("ready")>>
                ELSE <<>>]
       ELSE [NoOut EXCEPT ![s] = <<j>>]

JoinEvents(joined, s) ==
    LET newSize == getRoomSize(joined)
        j == [type |-> "joined", peers |-> newSize]
    IN IF newSize = 2
       THEN [t \in Sockets |->
                IF t = s THEN <<j, Msg("ready"), Msg("initiate")>>
                ELSE IF t \in Range(joined) THEN <<Msg("ready")>>
                ELSE <<>>]
       ELSE [NoOut EXCEPT ![s] = <<j>>]

\* socket.on('join')
Join(s) ==
    /\ conn[s] = "connected"
    /\ joinsSent[s] < JoinEmits
    /\ joinsSent' = [joinsSent EXCEPT ![s] = joinsSent[s] + 1]
    /\ LET size == getRoomSize(room) IN
       IF size >= RoomCapacity
       THEN /\ Fits([NoOut EXCEPT ![s] = <<Msg("room_full")>>])
            /\ inbox' = Deliver(inbox, [NoOut EXCEPT ![s] = <<Msg("room_full")>>])
            /\ room' = room
       ELSE LET joined == SocketJoin(room, s)
                out == JoinEvents(joined, s)
            IN /\ Fits(out)
               /\ inbox' = Deliver(inbox, out)
               /\ room' = joined
    /\ UNCHANGED conn
    /\ UNCHANGED sttVars
    /\ UNCHANGED <<sig, makingOffer, ignoreOffer, localDesc, remoteDesc, offerTask,
                   answerTask, applied, iceErrors, candSent>>
    /\ UNCHANGED pcVars
    /\ UNCHANGED aslVars

\* faulty variant: the transcript goes to every connected socket
emitTranscriptToAll(s, msg) ==
    [t \in Sockets |-> IF conn[t] = "connected" THEN <<msg>> ELSE <<>>]

\* streamData.socket.emit('transcript', ...): the socket held by the entry of
\* socket id s is the one bindSocketToStream(socket.id, socket) stored, the
\* peer's own socket
emitTranscript(s, msg) == [NoOut EXCEPT ![s] = <<msg>>]

\* ---- recognition stream events -----------------------------------------------------------
\* recognizeStream.on('data'): re-arm the closure's restart timer (clearTimeout,
\* then setTimeout with the full STREAM_TIMEOUT), then emit the
\* result to the socket bound to the entry of the stream's socket id
StreamData(s, k, hasAlternative, isFinal) ==
    /\ k \in 1..Len(streams[s])
    /\ ~streams[s][k].destroyed
    /\ timers' = timers \cup {<<s, k>>}
    /\ timeLeft' = [timeLeft EXCEPT ![<<s, k>>] = StreamTimeout]
    /\ LET emit == hasAlternative /\ HasEntry(recognizeStreams, s)
                   /\ recognizeStreams[s].socket
           out == IF emit
                  THEN emitTranscript(s, [type |-> "transcript", isFinal |-> isFinal])
                  ELSE NoOut
       IN /\ Fits(out)
          /\ emit => CountType(inbox[s], "transcript") < MaxPending
          /\ inbox' = Deliver(inbox, out)
    /\ UNCHANGED <<conn, room, recognizeStreams, streams>>
    /\ UNCHANGED clientVars
    /\ UNCHANGED pcVars
    /\ UNCHANGED aslVars

\* recognizeStream.on('error'): recreate; if the recreation throws, clean up
StreamError(s, k, throws) ==
    /\ k \in 1..Len(streams[s])
    /\ ~streams[s][k].destroyed
    /\ StreamsCreated < MaxStreams
    /\ LET c == createRecognizeStream(Service, s, "error", throws)
       IN SetService(IF throws THEN cleanup(c, s) ELSE c)
    /\ UNCHANGED timeLeft
    /\ UNCHANGED serverVars
    /\ UNCHANGED clientVars
    /\ UNCHANGED pcVars
    /\ UNCHANGED aslVars

\* the restart timer armed by setupRestartTimer of closure k expires (when
\* that happens is left open here; SpecTime lets it happen when its time is up)
TimerFire(s, k) ==
    /\ <<s, k>> \in timers
    /\ timeLeft' = [timeLeft EXCEPT ![<<s, k>>] = StreamTimeout]
    /\ StreamsCreated < MaxStreams
    /\ LET sv == [Service EXCEPT !.timers = timers \ {<<s, k>>}]
       IN SetService(createRecognizeStream(sv, s, "timer", FALSE))
    /\ UNCHANGED serverVars
    /\ UNCHANGED clientVars
    /\ UNCHANGED pcVars
    /\ UNCHANGED aslVars

\* the 'data' handler run for an event of a stream that was already destroyed
\* (an event that was under way when the stream was retired): the handler is
\* the same, it does not look at the state of its stream
LateStreamData(s, k, hasAlternative, isFinal) ==
    /\ k \in 1..Len(streams[s])
    /\ streams[s][k].destroyed
    /\ timers' = timers \cup {<<s, k>>}
    /\ timeLeft' = [timeLeft EXCEPT ![<<s, k>>] = StreamTimeout]
    /\ LET emit == hasAlternative /\ HasEntry(recognizeStreams, s)
                   /\ recognizeStreams[s].socket
           out == IF emit
                  THEN emitTranscript(s, [type |-> "transcript", isFinal |-> isFinal])
                  ELSE NoOut
       IN /\ Fits(out)
          /\ emit => CountType(inbox[s], "transcript") < MaxPending
          /\ inbox' = Deliver(inbox, out)
    /\ UNCHANGED <<conn, room, recognizeStreams, streams>>
    /\ UNCHANGED clientVars
    /\ UNCHANGED pcVars
    /\ UNCHANGED aslVars

\* the 'error' handler run for an event of a stream that was already
\* destroyed (the provider call reports its cancellation, or an error was
\* under way): the handler is the same
LateStreamError(s, k, throws) ==
    /\ k \in 1..Len(streams[s])
    /\ streams[s][k].destroyed
    /\ StreamsCreated < MaxStreams
    /\ LET c == createRecognizeStream(Service, s, "error", throws)
       IN SetService(IF throws THEN cleanup(c, s) ELSE c)
    /\ UNCHANGED timeLeft
    /\ UNCHANGED serverVars
    /\ UNCHANGED clientVars
    /\ UNCHANGED pcVars
    /\ UNCHANGED aslVars

\* socket.on('audioData'): processAudio(socket.id, data).  Without a writable
\* stream, or without data.buffer, the call returns; otherwise the normalised
\* buffer is written unless it is empty, and isFinal ends the stream.
ProcessAudio(s, buffer, isFinal) ==
    /\ conn[s] = "connected"
    /\ IF ~Writable(Service, s) \/ buffer.kind = "none"
       THEN UNCHANGED streams
       ELSE LET k == recognizeStreams[s].stream
                b == audioBuffer(buffer)
                w == IF Len(b) > 0 THEN Append(streams[s][k].written, b)
                     ELSE streams[s][k].written
            IN /\ Len(w) <= MaxWrites
               /\ streams' = [streams EXCEPT ![s][k].written = w,
                                              ![s][k].ended = @ \/ isFinal]
    /\ UNCHANGED <<recognizeStreams, timers, timeLeft>>
    /\ UNCHANGED serverVars
    /\ UNCHANGED clientVars
    /\ UNCHANGED pcVars
    /\ UNCHANGED aslVars

\* time passes by one tick: every pending timer comes one tick closer, every
\* live stream gets one tick older (ages beyond StreamTimeout are not told
\* apart).  A timer that has expired runs before time goes on.
Tick ==
    /\ \A x \in timers : timeLeft[x] > 0
    /\ timeLeft' = [x \in Sockets \X (1..MaxStreams) |->
                  IF x \in timers THEN timeLeft[x] - 1 ELSE timeLeft[x]]
    /\ streams' = [s \in Sockets |->
                     [k \in 1..Len(streams[s]) |->
                         IF ~streams[s][k].destroyed /\ streams[s][k].age <= StreamTimeout
                         THEN [streams[s][k] EXCEPT !.age = @ + 1]
                         ELSE streams[s][k]]]
    /\ UNCHANGED <<recognizeStreams, timers>>
    /\ UNCHANGED serverVars
    /\ UNCHANGED clientVars
    /\ UNCHANGED pcVars
    /\ UNCHANGED aslVars

\* dataChannel.send(JSON.stringify({type: 'transcript', text, isFinal})) by
\* page s: the caption travels to the page at the other end of the channel
\* (`from` names the channel's sending end)
ChannelSend(s, isFinal) ==
    [t \in Sockets |->
        IF t = dataChannel[s] /\ conn[t] = "connected"
        THEN <<[type |-> "transcript", isFinal |-> isFinal, from |-> s]>>
        ELSE <<>>]

\* updateTranscript(transcript, isFinal, isLocal) on page s, what it sends: a
\* local caption goes over the data channel when that is open
updateTranscriptSends(s, isFinal, isLocal) ==
    IF isLocal /\ dataChannel[s] # 0 THEN ChannelSend(s, isFinal) ELSE NoOut

\* updateTranscript(transcript, isFinal, isLocal), what it shows: the text on
\* captionsEl, the surface isLocal selects; then clearTimeout of the page's one
\* window.transcriptTimeout and a new timeout that will clear captionsEl
updateTranscript(c, isLocal) ==
    IF isLocal
    THEN [c EXCEPT !.localCaptions = TRUE, !.transcriptTimeout = {"localCaptions"}]
    ELSE [c EXCEPT !.remoteCaptions = TRUE, !.transcriptTimeout = {"remoteCaptions"}]

\* faulty variant: a caption from the channel is handled as a local one
onmessageIsLocalDefault == TRUE

\* channel.onmessage calls updateTranscript(data.text, data.isFinal, false)
onmessageIsLocal == FALSE

\* socket.on('transcript'): updateTranscript(data.transcript, data.isFinal,
\* data.isLocal); the server's event has no isLocal, so the default (true)
\* applies: the caption is shown as local and, when the data channel is open,
\* sent over it.  Nothing is sent anywhere when the channel is not open.
OnTranscript(s) ==
    /\ conn[s] = "connected"
    /\ inbox[s] # <<>>
    /\ Head(inbox[s]).type = "transcript"
    /\ inbox' = [inbox EXCEPT ![s] = Tail(inbox[s])]
    /\ LET out == updateTranscriptSends(s, Head(inbox[s]).isFinal, TRUE)
       IN /\ \A t \in Sockets : Len(chan[t]) + Len(out[t]) <= MaxPending
          /\ chan' = [t \in Sockets |-> chan[t] \o out[t]]
    /\ captions' = [captions EXCEPT ![s] = updateTranscript(@, TRUE)]
    /\ UNCHANGED <<conn, room, pc, dataChannel>>
    /\ UNCHANGED aslVars
    /\ UNCHANGED sttVars
    /\ UNCHANGED clientVars

\* channel.onopen on page s: the 'captions' channel to page t is open; the
\* transport exists once both ends have applied each other's description
ChannelOpen(s, t) ==
    /\ s # t
    /\ conn[s] = "connected"
    /\ conn[t] = "connected"
    /\ dataChannel[s] = 0
    /\ sig[s] = "stable"
    /\ sig[t] = "stable"
    /\ remoteDesc[s].owner = t
    /\ remoteDesc[t].owner = s
    /\ dataChannel' = [dataChannel EXCEPT ![s] = t]
    /\ UNCHANGED <<pc, chan, captions>>
    /\ UNCHANGED aslVars
    /\ UNCHANGED serverVars
    /\ UNCHANGED sttVars
    /\ UNCHANGED clientVars

\* channel.onmessage on page s: updateTranscript(data.text, data.isFinal, false)
\* shows the caption as remote and sends nothing
OnChannelMessage(s) ==
    /\ conn[s] = "connected"
    /\ chan[s] # <<>>
    /\ LET out == updateTranscriptSends(s, Head(chan[s]).isFinal, onmessageIsLocal)
       IN /\ \A t \in Sockets \ {s} : Len(chan[t]) + Len(out[t]) <= MaxPending
          /\ chan' = [t \in Sockets |->
                          (IF t = s THEN Tail(chan[t]) ELSE chan[t]) \o out[t]]
    /\ captions' = [captions EXCEPT ![s] = updateTranscript(@, onmessageIsLocal)]
    /\ UNCHANGED <<pc, dataChannel>>
    /\ UNCHANGED aslVars
    /\ UNCHANGED serverVars
    /\ UNCHANGED sttVars
    /\ UNCHANGED clientVars

\* the callback of window.transcriptTimeout on page s: TRANSCRIPT_TIMEOUT after
\* the latest updateTranscript it clears and hides the surface of that call
CaptionTimeout(s) ==
    /\ conn[s] = "connected"
    /\ captions[s].transcriptTimeout # {}
    /\ captions' = [captions EXCEPT ![s] =
                       [localCaptions |-> @.localCaptions
                                            /\ "localCaptions" \notin @.transcriptTimeout,
                        remoteCaptions |-> @.remoteCaptions
                                            /\ "remoteCaptions" \notin @.transcriptTimeout,
                        transcriptTimeout |-> {}]]
    /\ UNCHANGED <<pc, dataChannel, chan>>
    /\ UNCHANGED aslVars
    /\ UNCHANGED serverVars
    /\ UNCHANGED sttVars
    /\ UNCHANGED clientVars

\* ---- browser page: peer connection ----------------------------------------------------------
\* main() starts createPeerConnection() without awaiting it and goes on to
\* initSocket(): pc is assigned when the fetch of /ice-config has settled,
\* before or after any event of the socket is handled.  A handler that reads
\* pc finds it assigned or not; once a handler found it assigned it stays so.
pcRead(s) == {pc[s], TRUE}

\* ---- browser page: negotiation -----------------------------------------------------------
NextEvent(s, types) ==
    /\ conn[s] = "connected"
    /\ inbox[s] # <<>>
    /\ Head(inbox[s]).type \in types

\* 'joined', 'room_full', 'ready', 'peer_disconnected': the page only shows a status
OnNotice(s) ==
    /\ NextEvent(s, {"joined", "room_full", "ready", "peer_disconnected"})
    /\ inbox' = [inbox EXCEPT ![s] = Tail(inbox[s])]
    /\ UNCHANGED <<conn, room>>
    /\ UNCHANGED sttVars
    /\ UNCHANGED clientVars
    /\ UNCHANGED pcVars
    /\ UNCHANGED aslVars

\* socket.on('initiate'): makeOffer() runs up to its first await; while pc is
\* unset pc.createOffer throws, makingOffer is reset and the error is logged
OnInitiate(s) ==
    /\ NextEvent(s, {"initiate"})
    /\ inbox' = [inbox EXCEPT ![s] = Tail(inbox[s])]
    /\ \E ready \in pcRead(s) :
        /\ pc' = [pc EXCEPT ![s] = ready]
        /\ IF ready
           THEN /\ makingOffer' = [makingOffer EXCEPT ![s] = TRUE]
                /\ offerTask' = [offerTask EXCEPT ![s] = "creating"]
           ELSE UNCHANGED <<makingOffer, offerTask>>
    /\ UNCHANGED <<dataChannel, chan, captions>>
    /\ UNCHANGED aslVars
    /\ UNCHANGED <<conn, room>>
    /\ UNCHANGED sttVars
    /\ UNCHANGED <<sig, ignoreOffer, localDesc, remoteDesc, answerTask, applied,
                   iceErrors, candSent, joinsSent>>

\* makeOffer() after createOffer / setLocalDescription settle: the offer is sent
\* unless the pc rejects it (InvalidStateError in have-remote-offer); finally
\* makingOffer = false
MakeOfferDone(s) ==
    /\ conn[s] = "connected"
    /\ offerTask[s] = "creating"
    /\ offerTask' = [offerTask EXCEPT ![s] = "idle"]
    /\ makingOffer' = [makingOffer EXCEPT ![s] = FALSE]
    /\ IF sig[s] \in {"stable", "have-local-offer"}
       THEN LET out == RelayOut(s, [type |-> "signal:offer", sdp |-> Sdp("offer", s)])
            IN /\ Fits(out)
               /\ sig' = [sig EXCEPT ![s] = "have-local-offer"]
               /\ localDesc' = [localDesc EXCEPT ![s] = Sdp("offer", s)]
               /\ inbox' = Deliver(inbox, out)
       ELSE UNCHANGED <<sig, localDesc, inbox>>
    /\ UNCHANGED <<conn, room>>
    /\ UNCHANGED sttVars
    /\ UNCHANGED <<ignoreOffer, remoteDesc, answerTask, applied, iceErrors, candSent,
                   joinsSent>>
    /\ UNCHANGED pcVars
    /\ UNCHANGED aslVars

\* faulty variant: makingOffer is reset after the offer was sent, not in a
\* finally clause
MakeOfferFailsNoFinally(s) ==
    /\ conn[s] = "connected"
    /\ offerTask[s] = "creating"
    /\ offerTask' = [offerTask EXCEPT ![s] = "idle"]
    /\ UNCHANGED serverVars
    /\ UNCHANGED sttVars
    /\ UNCHANGED <<sig, makingOffer, ignoreOffer, localDesc, remoteDesc, answerTask,
                   applied, iceErrors, candSent, joinsSent>>
    /\ UNCHANGED pcVars
    /\ UNCHANGED aslVars

\* makeOffer() when pc.createOffer() or pc.setLocalDescription(offer) rejects:
\* nothing is applied or sent; finally makingOffer = false, and the 'initiate'
\* handler logs the error
MakeOfferFails(s) ==
    /\ conn[s] = "connected"
    /\ offerTask[s] = "creating"
    /\ offerTask' = [offerTask EXCEPT ![s] = "idle"]
    /\ makingOffer' = [makingOffer EXCEPT ![s] = FALSE]
    /\ UNCHANGED serverVars
    /\ UNCHANGED sttVars
    /\ UNCHANGED <<sig, ignoreOffer, localDesc, remoteDesc, answerTask,
                   applied, iceErrors, candSent, joinsSent>>
    /\ UNCHANGED pcVars
    /\ UNCHANGED aslVars

\* faulty variant: makingOffer is not consulted
offerCollisionStateOnly(s) == sig[s] # "stable"

\* const offerCollision = makingOffer || pc.signalingState !== 'stable'
offerCollision(s) == makingOffer[s] \/ sig[s] # "stable"

\* socket.on('signal:offer') up to the end of setRemoteDescription; a payload
\* without sdp is dropped (if (!offer) return); while pc is unset reading
\* pc.signalingState throws and the error is logged
OnOffer(s) ==
    /\ NextEvent(s, {"signal:offer"})
    /\ inbox' = [inbox EXCEPT ![s] = Tail(inbox[s])]
    /\ LET offer == Head(inbox[s]).sdp
       IN \E ready \in pcRead(s) :
          /\ pc' = [pc EXCEPT ![s] = ready]
          /\ UNCHANGED <<dataChannel, chan, captions>>
          /\ UNCHANGED aslVars
          /\ IF offer = NoDesc \/ ~ready
             THEN UNCHANGED <<ignoreOffer, sig, remoteDesc, answerTask>>
             ELSE /\ ignoreOffer' = [ignoreOffer EXCEPT ![s] = offerCollision(s)]
                  /\ IF offerCollision(s)
                     THEN UNCHANGED <<sig, remoteDesc, answerTask>>
                     ELSE /\ sig' = [sig EXCEPT ![s] = "have-remote-offer"]
                          /\ remoteDesc' = [remoteDesc EXCEPT ![s] = offer]
                          /\ answerTask' = [answerTask EXCEPT ![s] = "answering"]
    /\ UNCHANGED <<conn, room>>
    /\ UNCHANGED sttVars
    /\ UNCHANGED <<makingOffer, localDesc, offerTask, applied, iceErrors, candSent,
                   joinsSent>>

\* socket.on('signal:offer') from createAnswer on: apply the answer and send it
AnswerDone(s) ==
    /\ conn[s] = "connected"
    /\ answerTask[s] = "answering"
    /\ answerTask' = [answerTask EXCEPT ![s] = "idle"]
    /\ IF sig[s] = "have-remote-offer"
       THEN LET out == RelayOut(s, [type |-> "signal:answer", sdp |-> Sdp("answer", s)])
            IN /\ Fits(out)
               /\ sig' = [sig EXCEPT ![s] = "stable"]
               /\ localDesc' = [localDesc EXCEPT ![s] = Sdp("answer", s)]
               /\ inbox' = Deliver(inbox, out)
       ELSE UNCHANGED <<sig, localDesc, inbox>>
    /\ UNCHANGED <<conn, room>>
    /\ UNCHANGED sttVars
    /\ UNCHANGED <<makingOffer, ignoreOffer, remoteDesc, offerTask, applied,
                   iceErrors, candSent, joinsSent>>
    /\ UNCHANGED pcVars
    /\ UNCHANGED aslVars

\* faulty variant: the pc takes an answer in any signaling state
answerAppliesAlways(s) == TRUE

\* pc.setRemoteDescription(answer) is accepted only in have-local-offer
answerApplies(s) == sig[s] = "have-local-offer"

\* socket.on('signal:answer'): a payload without sdp is dropped;
\* setRemoteDescription(answer) succeeds only in have-local-offer, the
\* rejection is caught and logged
OnAnswer(s) ==
    /\ NextEvent(s, {"signal:answer"})
    /\ inbox' = [inbox EXCEPT ![s] = Tail(inbox[s])]
    /\ \E ready \in pcRead(s) :
        /\ pc' = [pc EXCEPT ![s] = ready]
        /\ UNCHANGED <<dataChannel, chan, captions>>
        /\ UNCHANGED aslVars
    /\ IF Head(inbox[s]).sdp # NoDesc /\ pc'[s] /\ answerApplies(s)
       THEN /\ sig' = [sig EXCEPT ![s] = "stable"]
            /\ remoteDesc' = [remoteDesc EXCEPT ![s] = Head(inbox[s]).sdp]
       ELSE UNCHANGED <<sig, remoteDesc>>
    /\ UNCHANGED <<conn, room>>
    /\ UNCHANGED sttVars
    /\ UNCHANGED <<makingOffer, ignoreOffer, localDesc, offerTask, answerTask,
                   applied, iceErrors, candSent, joinsSent>>

\* socket.on('signal:offer') when pc.setRemoteDescription(offer) rejects (an
\* sdp the pc cannot apply): the catch logs the error; ignoreOffer was set,
\* the pc is as before and nothing is sent
OfferRejected(s) ==
    /\ NextEvent(s, {"signal:offer"})
    /\ Head(inbox[s]).sdp # NoDesc
    /\ ~offerCollision(s)
    /\ inbox' = [inbox EXCEPT ![s] = Tail(inbox[s])]
    /\ pc' = [pc EXCEPT ![s] = TRUE]
    /\ ignoreOffer' = [ignoreOffer EXCEPT ![s] = FALSE]
    /\ UNCHANGED <<conn, room>>
    /\ UNCHANGED sttVars
    /\ UNCHANGED <<sig, makingOffer, localDesc, remoteDesc, offerTask, answerTask,
                   applied, iceErrors, candSent, joinsSent>>
    /\ UNCHANGED <<dataChannel, chan, captions>>
    /\ UNCHANGED aslVars

\* socket.on('signal:offer') when pc.createAnswer() or
\* pc.setLocalDescription(answer) rejects: the catch logs the error; the remote
\* offer stays applied and no answer is sent
AnswerFails(s) ==
    /\ conn[s] = "connected"
    /\ answerTask[s] = "answering"
    /\ answerTask' = [answerTask EXCEPT ![s] = "idle"]
    /\ UNCHANGED serverVars
    /\ UNCHANGED sttVars
    /\ UNCHANGED <<sig, makingOffer, ignoreOffer, localDesc, remoteDesc, offerTask,
                   applied, iceErrors, candSent, joinsSent>>
    /\ UNCHANGED pcVars
    /\ UNCHANGED aslVars

\* pc 'icecandidate' event: the candidate is sent through the relay
EmitCandidate(s) ==
    /\ conn[s] = "connected"
    /\ localDesc[s] # NoDesc
    /\ candSent[s] < MaxCand
    /\ LET out == RelayOut(s, [type |-> "signal:ice-candidate",
                               candidate |-> <<s, candSent[s] + 1>>])
       IN /\ Fits(out)
          /\ inbox' = Deliver(inbox, out)
    /\ candSent' = [candSent EXCEPT ![s] = candSent[s] + 1]
    /\ UNCHANGED <<conn, room>>
    /\ UNCHANGED sttVars
    /\ UNCHANGED <<sig, makingOffer, ignoreOffer, localDesc, remoteDesc, offerTask,
                   answerTask, applied, iceErrors, joinsSent>>
    /\ UNCHANGED pcVars
    /\ UNCHANGED aslVars

\* socket.on('signal:ice-candidate'): nothing is done without a candidate or a pc;
\* otherwise addIceCandidate is called at once; the pc
\* rejects it when it has no remote description, and the rejection is logged
OnCandidate(s) ==
    /\ NextEvent(s, {"signal:ice-candidate"})
    /\ inbox' = [inbox EXCEPT ![s] = Tail(inbox[s])]
    /\ \E ready \in pcRead(s) :
        /\ pc' = [pc EXCEPT ![s] = ready]
        /\ UNCHANGED <<dataChannel, chan, captions>>
        /\ UNCHANGED aslVars
    /\ LET c == Head(inbox[s]).candidate
       IN IF c = NoCandidate \/ ~pc'[s]
          THEN UNCHANGED <<applied, iceErrors>>
          ELSE IF remoteDesc[s] # NoDesc
          THEN /\ applied' = [applied EXCEPT ![s] = Append(applied[s], c)]
               /\ UNCHANGED iceErrors
          ELSE /\ iceErrors' = [iceErrors EXCEPT ![s] = iceErrors[s] \cup {c}]
               /\ UNCHANGED applied
    /\ UNCHANGED <<conn, room>>
    /\ UNCHANGED sttVars
    /\ UNCHANGED <<sig, makingOffer, ignoreOffer, localDesc, remoteDesc, offerTask,
                   answerTask, candSent, joinsSent>>

\* relayed payloads without their field that no page has handled yet
MalformedPending ==
    Cardinality({<<t, i>> \in Sockets \X (1..MaxInbox) :
                    /\ i <= Len(inbox[t])
                    /\ inbox[t][i].type \in SignalTypes
                    /\ inbox[t][i] = Malformed(inbox[t][i].type)})

\* the server's relay handlers for a payload without its field, as any client
\* of the socket endpoint can emit it: the payload is forwarded as it came
RelayMalformed(s, type) ==
    /\ conn[s] = "connected"
    /\ MalformedPending < MaxMalformed
    /\ LET out == RelayOut(s, Malformed(type))
       IN /\ Fits(out)
          /\ inbox' = Deliver(inbox, out)
    /\ UNCHANGED <<conn, room>>
    /\ UNCHANGED sttVars
    /\ UNCHANGED clientVars
    /\ UNCHANGED pcVars
    /\ UNCHANGED aslVars

\* signaling events no page has handled yet
SignalsPending ==
    Cardinality({<<t, i>> \in Sockets \X (1..MaxInbox) :
                    i <= Len(inbox[t]) /\ inbox[t][i].type \in SignalTypes})

\* the payload a client s puts in a signaling event of the given type
Payload(s, type) ==
    IF type = "signal:ice-candidate"
    THEN [type |-> type, candidate |-> <<s, 1>>]
    ELSE [type |-> type,
          sdp |-> Sdp(IF type = "signal:offer" THEN "offer" ELSE "answer", s)]

\* the server's relay handlers for an event of a connected socket that is not
\* in the room, as any client of the socket endpoint can emit it
RelayFromOutside(s, type) ==
    /\ conn[s] = "connected"
    /\ s \notin Range(room)
    /\ SignalsPending < MaxOutside
    /\ type = "signal:ice-candidate" => \A t \in Sockets : Len(applied[t]) < MaxCand
    /\ LET out == RelayOut(s, Payload(s, type))
       IN /\ Fits(out)
          /\ inbox' = Deliver(inbox, out)
    /\ UNCHANGED <<conn, room>>
    /\ UNCHANGED sttVars
    /\ UNCHANGED clientVars
    /\ UNCHANGED pcVars
    /\ UNCHANGED aslVars

\* ---- signaling specification: room, relay, offer / answer ------------------------------------------------------------------
Next ==
    \/ \E s \in Sockets : Connect(s)
    \/ \E s \in Sockets : Disconnect(s)
    \/ \E s \in Sockets : Join(s)
    \/ \E s \in Sockets : OnNotice(s)
    \/ \E s \in Sockets : OnInitiate(s)
    \/ \E s \in Sockets : MakeOfferDone(s)
    \/ \E s \in Sockets : OnOffer(s)
    \/ \E s \in Sockets : AnswerDone(s)
    \/ \E s \in Sockets : OnAnswer(s)

Spec == Init /\ [][Next]_vars

\* ---- signaling with trickled ICE candidates --------------------------------------------------
NextIce ==
    \/ Next
    \/ \E s \in Sockets : EmitCandidate(s)
    \/ \E s \in Sockets : OnCandidate(s)

SpecIce == Init /\ [][NextIce]_vars

\* ---- transcription specification ------------------------------------------------------------
NextStt ==
    \/ \E s \in 1..NSttSock : Connect(s)
    \/ \E s \in 1..NSttSock : Disconnect(s)
    \/ \E s \in 1..NSttSock, k \in 1..MaxStreams, a \in BOOLEAN, f \in BOOLEAN :
          StreamData(s, k, a, f)
    \/ \E s \in 1..NSttSock, k \in 1..MaxStreams, t \in BOOLEAN : StreamError(s, k, t)
    \/ \E s \in 1..NSttSock, k \in 1..MaxStreams : TimerFire(s, k)
    \/ \E s \in 1..NSttSock : OnTranscript(s)

SpecStt == Init /\ [][NextStt]_vars

\* ---- transcription specification with late events of retired streams ------------------------
NextLate ==
    \/ NextStt
    \/ \E s \in 1..NSttSock, k \in 1..MaxStreams, a \in BOOLEAN, f \in BOOLEAN :
          LateStreamData(s, k, a, f)
    \/ \E s \in 1..NSttSock, k \in 1..MaxStreams, t \in BOOLEAN : LateStreamError(s, k, t)

SpecLate == Init /\ [][NextLate]_vars

\* ---- the audio messages of the pages -----------------------------------------------------
\* onaudioprocess of the page: it emits audioData with the array of the int16
\* samples of a non-empty input buffer, and isFinal false
AudioChunk(s, pcm) ==
    /\ conn[s] = "connected"
    /\ pcm # <<>>
    /\ ProcessAudio(s, Wire("array", pcm), FALSE)

\* the audio track of the page ended: it emits audioData with an empty array
\* of samples and isFinal true
AudioEnded(s) ==
    /\ conn[s] = "connected"
    /\ ProcessAudio(s, Wire("array", <<>>), TRUE)

\* ---- transcription specification with the audio of the pages ------------------------------
NextAudio ==
    \/ \E s \in 1..NSttSock : Connect(s)
    \/ \E s \in 1..NSttSock : Disconnect(s)
    \/ \E s \in 1..NSttSock, pcm \in Pcm : AudioChunk(s, pcm)
    \/ \E s \in 1..NSttSock : AudioEnded(s)
    \/ \E s \in 1..NSttSock, k \in 1..MaxStreams, t \in BOOLEAN : StreamError(s, k, t)

SpecAudio == Init /\ [][NextAudio]_vars

\* ---- the audio of one page: every encoding of every buffer, on every stream of its socket ----
NextPcm ==
    \/ Connect(1)
    \/ Disconnect(1)
    \/ \E b \in AudioInputs, f \in BOOLEAN : ProcessAudio(1, b, f)
    \/ \E k \in 1..MaxStreams, t \in BOOLEAN : StreamError(1, k, t)

SpecPcm == Init /\ [][NextPcm]_vars

\* ---- transcription specification with the end of the pages' audio ------------------------
NextEnd ==
    \/ \E s \in 1..NSttSock : Connect(s)
    \/ \E s \in 1..NSttSock : Disconnect(s)
    \/ \E s \in 1..NSttSock : AudioEnded(s)
    \/ \E s \in 1..NSttSock, k \in 1..MaxStreams, a \in BOOLEAN, f \in BOOLEAN :
          StreamData(s, k, a, f)
    \/ \E s \in 1..NSttSock, k \in 1..MaxStreams, t \in BOOLEAN : StreamError(s, k, t)
    \/ \E s \in 1..NSttSock, k \in 1..MaxStreams : TimerFire(s, k)
    \/ \E s \in 1..NSttSock : OnTranscript(s)

SpecEnd == Init /\ [][NextEnd]_vars

\* ---- transcription specification with the clock: a timer runs when its time is up ------------
TimerExpires(s, k) ==
    /\ timeLeft[<<s, k>>] = 0
    /\ TimerFire(s, k)

NextTime ==
    \/ \E s \in 1..NSttSock : Connect(s)
    \/ \E s \in 1..NSttSock : Disconnect(s)
    \/ \E s \in 1..NSttSock, k \in 1..MaxStreams, a \in BOOLEAN, f \in BOOLEAN :
          StreamData(s, k, a, f)
    \/ \E s \in 1..NSttSock, k \in 1..MaxStreams, t \in BOOLEAN : StreamError(s, k, t)
    \/ \E s \in 1..NSttSock, k \in 1..MaxStreams : TimerExpires(s, k)
    \/ \E s \in 1..NSttSock : OnTranscript(s)
    \/ Tick

SpecTime == Init /\ [][NextTime]_vars

\* ---- one pair of pages, no failure: nobody disconnects ------------------------------------
NextPair ==
    \/ \E s \in 1..NSttSock : Connect(s)
    \/ \E s \in 1..NSttSock : Join(s)
    \/ \E s \in 1..NSttSock : OnNotice(s)
    \/ \E s \in 1..NSttSock : OnInitiate(s)
    \/ \E s \in 1..NSttSock : MakeOfferDone(s)
    \/ \E s \in 1..NSttSock : OnOffer(s)
    \/ \E s \in 1..NSttSock : AnswerDone(s)
    \/ \E s \in 1..NSttSock : OnAnswer(s)

SpecPair == Init /\ [][NextPair]_vars

\* ---- signaling specification with pages whose pc may fail to offer, to take an offer or to answer ----
NextFail ==
    \/ \E s \in Sockets : Connect(s)
    \/ \E s \in Sockets : Disconnect(s)
    \/ \E s \in Sockets : Join(s)
    \/ \E s \in Sockets : OnNotice(s)
    \/ \E s \in Sockets : OnInitiate(s)
    \/ \E s \in Sockets : MakeOfferDone(s)
    \/ \E s \in Sockets : MakeOfferFails(s)
    \/ \E s \in Sockets : OnOffer(s)
    \/ \E s \in Sockets : OfferRejected(s)
    \/ \E s \in Sockets : AnswerDone(s)
    \/ \E s \in Sockets : AnswerFails(s)
    \/ \E s \in Sockets : OnAnswer(s)

SpecFail == Init /\ [][NextFail]_vars

\* ---- relay specification: a pair of sockets, one of which may emit payloads without their field ----
NextRelay ==
    \/ \E s \in 1..NSttSock : Connect(s)
    \/ \E s \in 1..NSttSock : Disconnect(s)
    \/ \E s \in 1..NSttSock : Join(s)
    \/ \E s \in 1..NSttSock : OnNotice(s)
    \/ \E s \in 1..NSttSock : OnInitiate(s)
    \/ \E s \in 1..NSttSock : MakeOfferDone(s)
    \/ \E s \in 1..NSttSock : OnOffer(s)
    \/ \E s \in 1..NSttSock : AnswerDone(s)
    \/ \E s \in 1..NSttSock : OnAnswer(s)
    \/ \E s \in 1..NSttSock : OnCandidate(s)
    \/ \E s \in 1..NSttSock, type \in SignalTypes : RelayMalformed(s, type)

SpecRelay == Init /\ [][NextRelay]_vars

\* ---- relay specification: sockets outside the room may emit signaling events ---------------
NextOutside ==
    \/ \E s \in 1..NSttSock : Connect(s)
    \/ \E s \in 1..NSttSock : Disconnect(s)
    \/ \E s \in 1..NSttSock : Join(s)
    \/ \E s \in 1..NSttSock : OnNotice(s)
    \/ \E s \in 1..NSttSock : OnInitiate(s)
    \/ \E s \in 1..NSttSock : MakeOfferDone(s)
    \/ \E s \in 1..NSttSock : OnOffer(s)
    \/ \E s \in 1..NSttSock : AnswerDone(s)
    \/ \E s \in 1..NSttSock : OnAnswer(s)
    \/ \E s \in 1..NSttSock : OnCandidate(s)
    \/ \E s \in 1..NSttSock, type \in SignalTypes : RelayFromOutside(s, type)

SpecOutside == Init /\ [][NextOutside]_vars

\* ---- caption specification: a pair of pages, their streams and their data channel -------------
NextCap ==
    \/ \E s \in 1..NSttSock : Connect(s)
    \/ \E s \in 1..NSttSock : Disconnect(s)
    \/ \E s \in 1..NSttSock : Join(s)
    \/ \E s \in 1..NSttSock : OnNotice(s)
    \/ \E s \in 1..NSttSock : OnInitiate(s)
    \/ \E s \in 1..NSttSock : MakeOfferDone(s)
    \/ \E s \in 1..NSttSock : OnOffer(s)
    \/ \E s \in 1..NSttSock : AnswerDone(s)
    \/ \E s \in 1..NSttSock : OnAnswer(s)
    \/ \E s \in 1..NSttSock, t \in 1..NSttSock : ChannelOpen(s, t)
    \/ \E s \in 1..NSttSock, k \in 1..MaxStreams, a \in BOOLEAN, f \in BOOLEAN :
          StreamData(s, k, a, f)
    \/ \E s \in 1..NSttSock : OnTranscript(s)
    \/ \E s \in 1..NSttSock : OnChannelMessage(s)

SpecCap == Init /\ [][NextCap]_vars

\* ---- caption specification: a pair that stays, with the caption surfaces' timeout ---------
NextShow ==
    \/ \E s \in 1..NSttSock : Connect(s)
    \/ \E s \in 1..NSttSock : Join(s)
    \/ \E s \in 1..NSttSock : OnNotice(s)
    \/ \E s \in 1..NSttSock : OnInitiate(s)
    \/ \E s \in 1..NSttSock : MakeOfferDone(s)
    \/ \E s \in 1..NSttSock : OnOffer(s)
    \/ \E s \in 1..NSttSock : AnswerDone(s)
    \/ \E s \in 1..NSttSock : OnAnswer(s)
    \/ \E s \in 1..NSttSock, t \in 1..NSttSock : ChannelOpen(s, t)
    \/ \E s \in 1..NSttSock, k \in 1..MaxStreams, a \in BOOLEAN, f \in BOOLEAN :
          StreamData(s, k, a, f)
    \/ \E s \in 1..NSttSock : OnTranscript(s)
    \/ \E s \in 1..NSttSock : OnChannelMessage(s)
    \/ \E s \in 1..NSttSock : CaptionTimeout(s)

SpecShow == Init /\ [][NextShow]_vars

\* ---- the sign pages: deaf.js, hearing.js and their shared script.js -----------------------------
\* two of the signs getHeuristicPrediction returns
Signs == {"A", "V"}

\* the time since an entry was made, one step of the clock later
Elapse(ms) == IF ms + ClockStep < RepeatWindow THEN ms + ClockStep ELSE RepeatWindow

\* list.push(x); if (list.length > limit) list.shift()
PushShift(list, x, limit) ==
    IF Len(list) + 1 > limit THEN Tail(Append(list, x)) ELSE Append(list, x)

\* handleASLPrediction(prediction) of deaf.js: a prediction equal to
\* lastASLPrediction, or one that comes less than ASL_DEBOUNCE after the
\* latest aslHistory entry, is dropped; any other becomes lastASLPrediction,
\* is pushed on aslHistory and, when the socket is connected, is emitted
handleASLPrediction(prediction) ==
    IF \/ prediction = ""
       \/ prediction = lastASLPrediction
       \/ (aslHistory # <<>> /\ aslIdle < ASL_DEBOUNCE)
    THEN [lastASLPrediction |-> lastASLPrediction,
          aslHistory |-> aslHistory,
          aslIdle |-> aslIdle,
          emits |-> FALSE]
    ELSE [lastASLPrediction |-> prediction,
          aslHistory |-> PushShift(aslHistory, prediction, HistoryLimit),
          aslIdle |-> 0,
          emits |-> conn[DeafPage] = "connected"]

\* window.handleASLPrediction(prediction) of hearing.js: a sign equal to the
\* latest entry and less than a second after it is dropped; any other is
\* pushed on aslPredictions and shown.  Nothing is emitted.
hearingHandleASLPrediction(prediction) ==
    IF \/ prediction = ""
       \/ /\ aslPredictions # <<>>
          /\ aslShownIdle < RepeatWindow
          /\ aslPredictions[Len(aslPredictions)] = prediction
    THEN [aslPredictions |-> aslPredictions, aslShownIdle |-> aslShownIdle]
    ELSE [aslPredictions |-> PushShift(aslPredictions, prediction, PredictionsLimit),
          aslShownIdle |-> 0]

\* server socket.on('aslPrediction'): socket.to(DEFAULT_ROOM).emit of the
\* prediction with isLocal: true
aslPredictionRelay(s, prediction) ==
    RelayOut(s, [type |-> "aslPrediction", prediction |-> prediction, isLocal |-> TRUE])

\* window.handleASLPrediction(prediction) as the page of s has it: the function
\* of deaf.js on the deaf page, the one of hearing.js on the hearing page;
\* box is the events of the sockets once the caller has taken its own
WindowHandleASLPrediction(s, prediction, box) ==
    IF s = DeafPage
    THEN LET h == handleASLPrediction(prediction)
             out == IF h.emits THEN aslPredictionRelay(s, prediction) ELSE NoOut
         IN /\ h.aslHistory # aslHistory => Len(aslHistory) < MaxSigns
            /\ Fits(out)
            /\ lastASLPrediction' = h.lastASLPrediction
            /\ aslHistory' = h.aslHistory
            /\ aslIdle' = h.aslIdle
            /\ inbox' = Deliver(box, out)
            /\ UNCHANGED <<aslPredictions, aslShownIdle>>
    ELSE LET h == hearingHandleASLPrediction(prediction)
         IN /\ aslPredictions' = h.aslPredictions
            /\ aslShownIdle' = h.aslShownIdle
            /\ inbox' = box
            /\ UNCHANGED <<lastASLPrediction, aslHistory, aslIdle>>

\* onHandsResults -> predictASL -> handleASLPrediction on the deaf page: the
\* recogniser has seen a sign
OnHandsResults(prediction) ==
    /\ conn[DeafPage] = "connected"
    /\ WindowHandleASLPrediction(DeafPage, prediction, inbox)
    /\ UNCHANGED <<conn, room>>
    /\ UNCHANGED sttVars
    /\ UNCHANGED clientVars
    /\ UNCHANGED pcVars

\* socket.on('aslPrediction') of script.js on page s: window.handleASLPrediction,
\* then the prediction is sent over the data channel when that is open
OnAslPrediction(s) ==
    /\ NextEvent(s, {"aslPrediction"})
    /\ LET prediction == Head(inbox[s]).prediction
           out == [t \in Sockets |->
                      IF prediction # "" /\ t = dataChannel[s] /\ conn[t] = "connected"
                      THEN <<[type |-> "aslPrediction", prediction |-> prediction]>>
                      ELSE <<>>]
       IN /\ WindowHandleASLPrediction(s, prediction,
                                       [inbox EXCEPT ![s] = Tail(inbox[s])])
          /\ \A t \in Sockets : Len(chan[t]) + Len(out[t]) <= MaxPending
          /\ chan' = [t \in Sockets |-> chan[t] \o out[t]]
    /\ UNCHANGED <<conn, room>>
    /\ UNCHANGED sttVars
    /\ UNCHANGED clientVars
    /\ UNCHANGED <<pc, dataChannel, captions>>

\* channel.onmessage of script.js on page s, data.type === 'aslPrediction':
\* window.handleASLPrediction(data.prediction)
OnChannelAslPrediction(s) ==
    /\ conn[s] = "connected"
    /\ chan[s] # <<>>
    /\ Head(chan[s]).type = "aslPrediction"
    /\ chan' = [chan EXCEPT ![s] = Tail(chan[s])]
    /\ WindowHandleASLPrediction(s, Head(chan[s]).prediction, inbox)
    /\ UNCHANGED <<conn, room>>
    /\ UNCHANGED sttVars
    /\ UNCHANGED clientVars
    /\ UNCHANGED <<pc, dataChannel, captions>>

\* ClockStep milliseconds pass on the clocks Date.now() reads
AslTick ==
    /\ \/ aslHistory # <<>> /\ aslIdle < RepeatWindow
       \/ aslPredictions # <<>> /\ aslShownIdle < RepeatWindow
    /\ aslIdle' = IF aslHistory # <<>> THEN Elapse(aslIdle) ELSE aslIdle
    /\ aslShownIdle' = IF aslPredictions # <<>> THEN Elapse(aslShownIdle) ELSE aslShownIdle
    /\ UNCHANGED <<lastASLPrediction, aslHistory, aslPredictions>>
    /\ UNCHANGED serverVars
    /\ UNCHANGED sttVars
    /\ UNCHANGED clientVars
    /\ UNCHANGED pcVars

\* a deaf page and a hearing page that join, negotiate and exchange signs
NextAsl ==
    \/ \E s \in {DeafPage, HearingPage} : Connect(s)
    \/ \E s \in {DeafPage, HearingPage} : Join(s)
    \/ \E s \in {DeafPage, HearingPage} : OnNotice(s)
    \/ \E s \in {DeafPage, HearingPage} : OnInitiate(s)
    \/ \E s \in {DeafPage, HearingPage} : MakeOfferDone(s)
    \/ \E s \in {DeafPage, HearingPage} : OnOffer(s)
    \/ \E s \in {DeafPage, HearingPage} : AnswerDone(s)
    \/ \E s \in {DeafPage, HearingPage} : OnAnswer(s)
    \/ \E s \in {DeafPage, HearingPage}, t \in {DeafPage, HearingPage} : ChannelOpen(s, t)
    \/ \E prediction \in Signs : OnHandsResults(prediction)
    \/ \E s \in {DeafPage, HearingPage} : OnAslPrediction(s)
    \/ \E s \in {DeafPage, HearingPage} : OnChannelAslPrediction(s)
    \/ AslTick

SpecAsl == Init /\ [][NextAsl]_vars

\* ---- the properties ------------------------------------------------------------------------------
\* the page of s handles the event at the head of its inbox in this step
Handled(s, types) ==
    /\ NextEvent(s, types)
    /\ conn'[s] = "connected"
    /\ inbox'[s] = Tail(inbox[s])

\* the server handles a 'join' of s in this step
JoinHandled(s) == joinsSent'[s] = joinsSent[s] + 1

\* roles of a full room, from the join order
Initiator(s) == Len(room) = 2 /\ room[2] = s
Polite(s) == Len(room) = 2 /\ room[1] = s

\* C1: for every interleaving of joins and disconnects the room never has more
\* than 2 members, and a join handled while the room has 2 members is answered
\* with room_full and leaves the membership unchanged.
C1_RoomNeverExceedsTwo ==
    [][ /\ Len(room') <= 2
        /\ \A s \in Sockets :
              (JoinHandled(s) /\ Len(room) >= 2)
                  => /\ room' = room
                     /\ inbox'[s] = Append(inbox[s], Msg("room_full")) ]_vars

C1_Witness ==
    \E s \in Sockets :
        /\ Len(room) = 2
        /\ s \notin Range(room)
        /\ inbox[s] # <<>>
        /\ inbox[s][Len(inbox[s])].type = "room_full"

\* C2: each time the room goes from 1 to 2 members 'initiate' is emitted exactly
\* once, to the socket whose join completed the pair; no other step emits an
\* 'initiate' to anyone.
C2_InitiateOnlyToSecondJoiner ==
    [][ \A s \in Sockets :
           LET d == CountType(inbox'[s], "initiate") - CountType(inbox[s], "initiate")
           IN IF Len(room) = 1 /\ Len(room') = 2 /\ room'[2] = s
              THEN JoinHandled(s) /\ d = 1
              ELSE d <= 0 ]_vars

C2_Witness ==
    /\ Len(room) = 2
    /\ CountType(inbox[room[2]], "initiate") = 1
    /\ CountType(inbox[room[1]], "ready") = 1

\* C3: for every socket id at most one recognition stream is live (not
\* destroyed), and it is the stream of the registry entry: a replacement is
\* opened only after the previous stream was destroyed.
C3_AtMostOneLiveStream ==
    \A s \in Sockets :
        /\ Cardinality(LiveStreams(s)) <= 1
        /\ \A k \in LiveStreams(s) :
              HasEntry(recognizeStreams, s) /\ recognizeStreams[s].stream = k

C3_Witness ==
    \E s \in Sockets :
        /\ Len(streams[s]) >= 3
        /\ LiveStreams(s) = {Len(streams[s])}
        /\ streams[s][2].origin = "timer"
        /\ streams[s][3].origin = "error"

\* C4: once cleanup has run for a disconnected peer, no recognition stream is
\* created for its socket id any more.
C4_NoStreamAfterDisconnect ==
    [][ \A s \in Sockets :
           conn[s] = "closed" => Len(streams'[s]) = Len(streams[s]) ]_vars

\* C5: a remote offer that reaches the polite peer (the non-initiator) during a
\* collision (makingOffer, or signaling state not stable) is accepted: it
\* becomes the remote description and the answer is under way.
C5_PoliteAcceptsCollidingOffer ==
    [][ \A s \in Sockets :
           (/\ Handled(s, {"signal:offer"})
            /\ Polite(s)
            /\ (makingOffer[s] \/ sig[s] # "stable"))
               => /\ remoteDesc'[s] = Head(inbox[s]).sdp
                  /\ answerTask'[s] = "answering" ]_vars

\* C6: a remote offer that reaches the impolite peer (the initiator) during a
\* collision is discarded: no remote description is applied, no answer is
\* prepared or sent, signaling state and makingOffer are unchanged.
C6_ImpoliteDiscardsCollidingOffer ==
    [][ \A s \in Sockets :
           (/\ Handled(s, {"signal:offer"})
            /\ Initiator(s)
            /\ (makingOffer[s] \/ sig[s] # "stable"))
               => /\ remoteDesc'[s] = remoteDesc[s]
                  /\ localDesc'[s] = localDesc[s]
                  /\ sig'[s] = sig[s]
                  /\ makingOffer'[s] = makingOffer[s]
                  /\ answerTask'[s] = answerTask[s]
                  /\ \A t \in Sockets \ {s} : inbox'[t] = inbox[t] ]_vars

C6_Witness ==
    \E s \in Sockets :
        /\ Initiator(s)
        /\ ignoreOffer[s]
        /\ makingOffer[s]
        /\ sig[s] = "stable"
        /\ remoteDesc[s] = NoDesc

\* C7: glare is resolved by the politeness assignment: two connected room
\* members are never both timeLeft in have-local-offer with nothing under way
\* (no signaling event undelivered, no offer or answer being prepared).
Quiet(s) ==
    /\ offerTask[s] = "idle"
    /\ answerTask[s] = "idle"
    /\ \A i \in 1..Len(inbox[s]) :
          inbox[s][i].type \notin {"initiate", "signal:offer", "signal:answer"}

C7_GlareResolved ==
    ~(/\ Len(room) = 2
      /\ \A s \in Range(room) : sig[s] = "have-local-offer" /\ Quiet(s))

\* C8: no received candidate is applied against a missing remote description
\* and none is lost: addIceCandidate is never rejected.
C8_NoCandidateLost ==
    \A s \in Sockets : iceErrors[s] = {}

\* C9: a stream error is followed by one recreation only: a stream that was
\* itself created by error recovery is not replaced by another recovery
\* stream when it fails, its session is removed from the registry.
C9_OneRecreationAttempt ==
    [][ \A s \in Sockets : \A k \in LiveStreams(s) :
           (/\ streams[s][k].origin = "error"
            /\ streams'[s][k].destroyed
            /\ conn'[s] = conn[s]
            /\ timers' = timers)
               => ~HasEntry(recognizeStreams', s) ]_vars

\* C10: right after the disconnect of a peer was handled its transcription
\* resources are released: no registry entry, no live stream, no pending
\* rotation timer of any of its streams.
C10_DisconnectReleasesAll ==
    [][ \A s \in Sockets :
           (conn[s] = "connected" /\ conn'[s] = "closed")
               => /\ ~HasEntry(recognizeStreams', s)
                  /\ \A k \in 1..Len(streams'[s]) : streams'[s][k].destroyed
                  /\ \A k \in 1..Len(streams'[s]) : <<s, k>> \notin timers' ]_vars

\* C11: every provider result that has at least one alternative is emitted as
\* 'transcript' to the socket of its peer, interim and final alike, for every
\* stream of a connected peer (also the streams opened by the rotation timer
\* or by error recovery).
C11_EveryResultEmitted ==
    [][ \A s \in Sockets, k \in 1..MaxStreams, f \in BOOLEAN :
           (conn[s] = "connected" /\ StreamData(s, k, TRUE, f))
               => inbox'[s] = Append(inbox[s], [type |-> "transcript", isFinal |-> f]) ]_vars

\* C12: each transcript event produced for a peer reaches the other room
\* member: when the page of the peer handles the event, the caption is sent to
\* the other member over the data channel, or, when the channel is not open,
\* over the relay path (an event to the other member's socket).
C12_TranscriptReachesPeer ==
    [][ \A s \in Sockets : \A t \in Range(room) \ {s} :
           (Handled(s, {"transcript"}) /\ s \in Range(room) /\ conn[t] = "connected")
               => \/ /\ Len(chan'[t]) = Len(chan[t]) + 1
                     /\ chan'[t][Len(chan'[t])].from = s
                  \/ /\ Len(inbox'[t]) = Len(inbox[t]) + 1
                     /\ inbox'[t][Len(inbox'[t])].type = "transcript" ]_vars

\* C13: when a join brings the room from 1 to 2 members, that step emits one
\* 'ready' to each of the two members, the joiner included.
C13_ReadyToBoth ==
    [][ (Len(room) = 1 /\ Len(room') = 2)
            => \A t \in Range(room') :
                  /\ Len(inbox'[t]) > Len(inbox[t])
                  /\ CountType(inbox'[t], "ready") = CountType(inbox[t], "ready") + 1 ]_vars

C13_Witness ==
    /\ Len(room) = 2
    /\ \A t \in Range(room) : \E i \in 1..Len(inbox[t]) : inbox[t][i].type = "ready"

\* C14: when a room member disconnects, that step removes it from the room and
\* emits one 'peer_disconnected' to every remaining member.
C14_MemberLeaves ==
    [][ \A s \in Range(room) :
           (conn[s] = "connected" /\ conn'[s] = "closed")
               => /\ s \notin Range(room')
                  /\ \A t \in Range(room) \ {s} :
                        /\ t \in Range(room')
                        /\ inbox'[t] = Append(inbox[t], Msg("peer_disconnected")) ]_vars

C14_Witness ==
    \E s \in Sockets, t \in Sockets :
        /\ conn[s] = "closed"
        /\ room = <<t>>
        /\ inbox[t] # <<>>
        /\ inbox[t][Len(inbox[t])].type = "peer_disconnected"
        /\ CountType(inbox[t], "ready") = 1

\* the page of s emits an offer / an answer / a candidate in this step
OfferSent(s) ==
    /\ offerTask[s] = "creating"
    /\ offerTask'[s] = "idle"
    /\ conn'[s] = "connected"
    /\ sig'[s] = "have-local-offer"

AnswerSent(s) ==
    /\ answerTask[s] = "answering"
    /\ answerTask'[s] = "idle"
    /\ conn'[s] = "connected"
    /\ sig[s] = "have-remote-offer"

CandidateSent(s) == candSent'[s] = candSent[s] + 1

\* this step appends m to the inbox of every member other than s, and changes
\* no other inbox
Forwarded(s, m) ==
    \A t \in Sockets :
        inbox'[t] = IF t \in Range(room) /\ t # s THEN Append(inbox[t], m) ELSE inbox[t]

\* C15: a signal:offer, signal:answer or signal:ice-candidate emitted by a room
\* member is forwarded with its payload unchanged to every other member of the
\* room, and to nobody else: never back to its sender.
C15_RelayToOthersOnly ==
    [][ \A s \in Range(room) :
           /\ OfferSent(s) =>
                 Forwarded(s, [type |-> "signal:offer", sdp |-> localDesc'[s]])
           /\ AnswerSent(s) =>
                 Forwarded(s, [type |-> "signal:answer", sdp |-> localDesc'[s]])
           /\ CandidateSent(s) =>
                 Forwarded(s, [type |-> "signal:ice-candidate",
                               candidate |-> <<s, candSent'[s]>>]) ]_vars

C15_Witness ==
    \E s \in Range(room), t \in Range(room) :
        /\ s # t
        /\ candSent[s] = 1
        /\ localDesc[s].kind = "answer"
        /\ \E i \in 1..Len(inbox[t]), j \in 1..Len(inbox[t]) :
              /\ i < j
              /\ inbox[t][i] = [type |-> "signal:answer", sdp |-> Sdp("answer", s)]
              /\ inbox[t][j] = [type |-> "signal:ice-candidate", candidate |-> <<s, 1>>]
        /\ \A i \in 1..Len(inbox[s]) : inbox[s][i].type # "signal:answer"

\* C16: a relayed message whose required field is absent is dropped by the
\* relay: no socket is ever sent a signal:offer or signal:answer without sdp,
\* or a signal:ice-candidate without candidate.
C16_MalformedDropped ==
    \A t \in Sockets : \A i \in 1..Len(inbox[t]) :
        inbox[t][i].type \in SignalTypes => inbox[t][i] # Malformed(inbox[t][i].type)

\* C17: after A joined and then B joined, with every event delivered and
\* nobody failing, B sends its offer, A answers it and B applies the answer:
\* once every signaling event of the pair is handled and no offer or answer
\* is under way, both endpoints are stable and each has applied the other's
\* description (A the offer of B, B the answer of A).
C17_PairNegotiates ==
    (Len(room) = 2 /\ \A s \in Range(room) : Quiet(s))
        => /\ sig[room[1]] = "stable"
           /\ sig[room[2]] = "stable"
           /\ remoteDesc[room[1]] = Sdp("offer", room[2])
           /\ remoteDesc[room[2]] = Sdp("answer", room[1])

\* C18: a remote answer handled while the endpoint is not in have-local-offer
\* is ignored: signaling state and descriptions are unchanged, no offer or
\* answer is started, nothing is sent, and the event is consumed so that the
\* page goes on with the events behind it.
C18_StrayAnswerIgnored ==
    [][ \A s \in Sockets :
           (Handled(s, {"signal:answer"}) /\ sig[s] # "have-local-offer")
               => /\ sig'[s] = sig[s]
                  /\ remoteDesc'[s] = remoteDesc[s]
                  /\ localDesc'[s] = localDesc[s]
                  /\ offerTask'[s] = offerTask[s]
                  /\ answerTask'[s] = answerTask[s]
                  /\ makingOffer'[s] = makingOffer[s]
                  /\ \A t \in Sockets \ {s} : inbox'[t] = inbox[t] ]_vars

C18_Witness ==
    \E s \in Sockets :
        /\ NextEvent(s, {"signal:answer"})
        /\ Head(inbox[s]).sdp # NoDesc
        /\ pc[s]
        /\ sig[s] = "stable"
        /\ Len(inbox[s]) > 1

\* C19: creating a transcription session arms its rotation timer: in every
\* step that creates a recognition stream for a socket id, a rotation timer of
\* that socket id is pending afterwards, whether or not a result has arrived.
C19_TimerArmedAtCreation ==
    [][ \A s \in Sockets :
           Len(streams'[s]) > Len(streams[s])
               => \E k \in 1..Len(streams'[s]) : <<s, k>> \in timers' ]_vars

\* C20: a live stream is rotated before the provider's ceiling: no stream is
\* live for longer than STREAM_TIMEOUT after its creation, also while results
\* keep arriving.
C20_RotatedBeforeCeiling ==
    \A s \in Sockets : \A k \in LiveStreams(s) : streams[s][k].age <= StreamTimeout

\* C21: final audio ends the peer's stream without scheduling a rotation: once
\* a stream was ended by an audioData message with isFinal, no rotation timer
\* of that socket id is pending, and no stream created by a rotation timer
\* comes after it.
C21_FinalEndsWithoutRotation ==
    \A s \in Sockets : \A k \in 1..Len(streams[s]) :
        streams[s][k].ended
            => /\ \A j \in 1..MaxStreams : <<s, j>> \notin timers
               /\ \A j \in (k + 1)..Len(streams[s]) : streams[s][j].origin # "timer"

\* C22: teardown is idempotent: cleanup of a socket id without a registry
\* entry changes nothing, and cleanup applied twice in a row to a socket id
\* leaves the registry, the streams and the timers as one application does.
C22_CleanupIdempotent ==
    \A s \in Sockets :
        /\ ~HasEntry(recognizeStreams, s) => cleanup(Service, s) = Service
        /\ cleanup(cleanup(Service, s), s) = cleanup(Service, s)

C22_Witness ==
    \E s \in Sockets, t \in Sockets :
        /\ conn[s] = "closed"
        /\ ~HasEntry(recognizeStreams, s)
        /\ \E k \in 1..Len(streams[s]) : streams[s][k].destroyed /\ <<s, k>> \in timers
        /\ HasEntry(recognizeStreams, t)
        /\ recognizeStreams[t].stream > 0
        /\ cleanup(Service, t) # Service

\* C23: failure is peer-scoped: a stream error with its recreation, a
\* rotation, or the set-up and the cleanup of one socket id leave the registry
\* entry, the streams and the timers of every other socket id unchanged.
TimersOf(tm, s) == {x \in tm : x[1] = s}

C23_PeerScoped ==
    [][ \A s \in Sockets :
           (\/ \E k \in 1..MaxStreams, th \in BOOLEAN : StreamError(s, k, th)
            \/ \E k \in 1..MaxStreams : TimerFire(s, k)
            \/ Connect(s)
            \/ Disconnect(s))
               => \A u \in Sockets \ {s} :
                     /\ recognizeStreams'[u] = recognizeStreams[u]
                     /\ streams'[u] = streams[u]
                     /\ TimersOf(timers', u) = TimersOf(timers, u) ]_vars

C23_Witness ==
    \E s \in Sockets : \E u \in Sockets \ {s} :
        /\ conn[s] = "closed"
        /\ \E k \in 1..Len(streams[s]) : streams[s][k].origin \in {"error", "timer"}
        /\ HasEntry(recognizeStreams, u)
        /\ recognizeStreams[u].stream > 0
        /\ TimersOf(timers, u) # {}

\* C26: processAudio normalises the three wire encodings of one PCM buffer to
\* the same bytes before writing: whichever encoding carries the n >= 1
\* samples, the buffer written to the peer's stream is the 2n bytes of their
\* 16-bit little-endian encoding; for n = 0 nothing is written.
C26_EncodingsNormalised ==
    [][ \A s \in Sockets, pcm \in Pcm, enc \in {"array", "wrapper", "buffer"}, f \in BOOLEAN :
           (ProcessAudio(s, Wire(enc, pcm), f) /\ Writable(Service, s))
               => LET k == recognizeStreams[s].stream
                      w == streams[s][k].written
                      w1 == streams'[s][k].written
                  IN IF pcm = <<>> THEN w1 = w
                     ELSE /\ Len(w1) = Len(w) + 1
                          /\ w1[Len(w1)] = LittleEndian(pcm)
                          /\ Len(w1[Len(w1)]) = 2 * Len(pcm) ]_vars

C26_Witness ==
    \E s \in Sockets :
        /\ Writable(Service, s)
        /\ streams[s][recognizeStreams[s].stream].written = <<LittleEndian(<<-2, 256>>)>>
        /\ LittleEndian(<<-2, 256>>) = <<254, 255, 0, 1>>

\* C27: processAudio for a peer without a registry entry, or whose stream is
\* ended or destroyed, writes nothing to any stream and leaves the registry,
\* the streams and the timers unchanged; bytes are only ever written to the
\* stream the registry holds for the peer, while it is neither ended nor
\* destroyed.
NoWritableStream(s) ==
    \/ ~HasEntry(recognizeStreams, s)
    \/ recognizeStreams[s].stream = 0
    \/ streams[s][recognizeStreams[s].stream].ended
    \/ streams[s][recognizeStreams[s].stream].destroyed

C27_NotWritableNoWrite ==
    [][ \A s \in Sockets :
           /\ NoWritableStream(s)
                 => \A b \in AudioInputs, f \in BOOLEAN :
                       ProcessAudio(s, b, f)
                           => UNCHANGED <<recognizeStreams, streams, timers>>
           /\ \A k \in 1..Len(streams[s]) :
                 streams'[s][k].written # streams[s][k].written
                     => /\ ~NoWritableStream(s)
                        /\ recognizeStreams[s].stream = k ]_vars

C27_Witness ==
    \E s \in Sockets : \E u \in Sockets \ {s} :
        /\ conn[s] = "connected"
        /\ HasEntry(recognizeStreams, s)
        /\ recognizeStreams[s].stream > 0
        /\ streams[s][recognizeStreams[s].stream].ended
        /\ Len(streams[s][recognizeStreams[s].stream].written) = 1
        /\ conn[u] = "connected"
        /\ ~HasEntry(recognizeStreams, u)

\* C24: each caption surface times out on its own: whenever a caption is
\* shown on a surface of a page, a timeout that will clear that surface is
\* pending, whatever was shown on the other surface in the meantime.
C24_SurfacesTimeOutIndependently ==
    \A s \in Sockets :
        /\ captions[s].localCaptions
              => "localCaptions" \in captions[s].transcriptTimeout
        /\ captions[s].remoteCaptions
              => "remoteCaptions" \in captions[s].transcriptTimeout

\* C25: a transcript received over the data channel is delivered once: the
\* step that takes it from the channel shows it on the remote caption surface
\* of the receiving page, leaves the local surface as it was, and sends
\* nothing: no channel and no socket gets a new message.
C25_RemoteShownNotEchoed ==
    [][ \A s \in Sockets :
           (chan[s] # <<>> /\ chan'[s] = Tail(chan[s]) /\ conn'[s] = "connected")
               => /\ captions'[s].remoteCaptions
                  /\ captions'[s].localCaptions = captions[s].localCaptions
                  /\ \A t \in Sockets \ {s} : chan'[t] = chan[t]
                  /\ inbox' = inbox ]_vars

C25_Witness ==
    \E s \in Sockets :
        /\ captions[s].remoteCaptions
        /\ dataChannel[s] # 0
        /\ conn[dataChannel[s]] = "connected"
        /\ chan[s] = <<>>
        /\ chan[dataChannel[s]] = <<>>

\* C28: a failure while handling an offer, an answer or a candidate is caught
\* and leaves the endpoint able to negotiate: an offer of the peer handled by
\* an endpoint that has its pc, is not making an offer, has no offer of its
\* own outstanding and no answer under way, is accepted (it becomes the remote
\* description and the endpoint goes on to answer it), also after an earlier
\* failure.
C28_OfferAcceptedAfterFailure ==
    [][ \A s \in Sockets :
           (/\ Handled(s, {"signal:offer"})
            /\ Head(inbox[s]).sdp # NoDesc
            /\ pc[s]
            /\ ~makingOffer[s]
            /\ sig[s] # "have-local-offer"
            /\ answerTask[s] = "idle"
            /\ ~OfferRejected(s))
               => /\ sig'[s] = "have-remote-offer"
                  /\ remoteDesc'[s] = Head(inbox[s]).sdp
                  /\ answerTask'[s] = "answering" ]_vars

\* C29: makingOffer is true only while a makeOffer call is in progress: it is
\* false in every state in which the page has no makeOffer call under way,
\* also after a call in which creating or applying the offer failed.
C29_MakingOfferOnlyDuringCall ==
    \A s \in Sockets : makingOffer[s] => offerTask[s] = "creating"

C29_Witness ==
    \E s \in Sockets :
        /\ Initiator(s)
        /\ pc[s]
        /\ \A i \in 1..Len(inbox[s]) : inbox[s][i].type # "initiate"
        /\ offerTask[s] = "idle"
        /\ ~makingOffer[s]
        /\ localDesc[s] = NoDesc
        /\ sig[s] = "stable"
        /\ remoteDesc[s] = NoDesc
        /\ inbox[s] = <<>>

\* C30: a socket admitted by 'join' receives 'joined' whose peers value is the
\* room size right after the admission, 1 for the first member and 2 for the
\* second; a join answered with room_full receives no 'joined'.
C30_JoinedReportsRoomSize ==
    [][ \A s \in Sockets :
           JoinHandled(s)
               => LET new == SubSeq(inbox'[s], Len(inbox[s]) + 1, Len(inbox'[s]))
                  IN IF Len(room) >= RoomCapacity
                     THEN /\ new = <<Msg("room_full")>>
                          /\ room' = room
                     ELSE /\ s \in Range(room')
                          /\ Len(new) >= 1
                          /\ new[1] = [type |-> "joined", peers |-> Len(room')]
                          /\ \A i \in 2..Len(new) : new[i].type # "joined"
                          /\ room = <<>> => new[1].peers = 1
                          /\ (Len(room) = 1 /\ s \notin Range(room)) => new[1].peers = 2 ]_vars

C30_Witness ==
    \E s \in Sockets, t \in Sockets, u \in Sockets :
        /\ room = <<s, t>>
        /\ \E i \in 1..Len(inbox[s]) : inbox[s][i] = [type |-> "joined", peers |-> 1]
        /\ \E i \in 1..Len(inbox[t]) : inbox[t][i] = [type |-> "joined", peers |-> 2]
        /\ u \notin {s, t}
        /\ inbox[u] = <<Msg("room_full")>>

\* C31: a member that disconnects leaves the room with one member fewer, the
\* others staying; a socket whose join is handled while the room is empty is
\* admitted as first member and gets 'joined' with peers = 1 and nothing else,
\* and a join handled while the room has one other member is admitted, also
\* when the room had 2 members before.
C31_RoomShrinksAndReadmits ==
    [][ \A s \in Sockets :
           /\ (s \in Range(room) /\ conn[s] = "connected" /\ conn'[s] = "closed")
                 => /\ Len(room') = Len(room) - 1
                    /\ Range(room') = Range(room) \ {s}
           /\ (JoinHandled(s) /\ room = <<>>)
                 => /\ room' = <<s>>
                    /\ inbox'[s] = Append(inbox[s], [type |-> "joined", peers |-> 1])
                    /\ \A t \in Sockets \ {s} : inbox'[t] = inbox[t]
           /\ (JoinHandled(s) /\ Len(room) = 1 /\ s \notin Range(room))
                 => room' = Append(room, s) ]_vars

C31_Witness ==
    \E s \in Sockets, t \in Sockets, u \in Sockets :
        /\ conn[t] = "closed"
        /\ room = <<s, u>>
        /\ CountType(inbox[s], "ready") = 2
        /\ CountType(inbox[s], "peer_disconnected") = 1
        /\ \E i \in 1..Len(inbox[u]) : inbox[u][i] = [type |-> "joined", peers |-> 2]

\* C32: a socket that is a member of the room never receives room_full: no
\* step in which the server handles a 'join' of a member adds room_full to
\* that member's events, also when it is the member's second 'join'.
C32_MemberNeverRoomFull ==
    [][ \A s \in Range(room) :
           JoinHandled(s)
               => CountType(inbox'[s], "room_full") = CountType(inbox[s], "room_full") ]_vars

\* C33: 'peer_disconnected' reaches a member only when the other member
\* disconnects: the disconnect of a socket that is not a member of the room
\* adds no event to any member.
C33_PeerDisconnectedOnlyForMember ==
    [][ \A s \in Sockets \ Range(room) :
           (conn[s] = "connected" /\ conn'[s] = "closed")
               => \A t \in Range(room) : inbox'[t] = inbox[t] ]_vars

\* C34: only room members can signal: whenever a signal:offer, signal:answer
\* or signal:ice-candidate is added to the events of a socket, the socket
\* that produced its payload is a member of the room.
SignalOwner(m) == IF m.type = "signal:ice-candidate" THEN m.candidate[1] ELSE m.sdp.owner

C34_OnlyMembersSignal ==
    [][ \A t \in Sockets :
           (/\ Len(inbox'[t]) > Len(inbox[t])
            /\ inbox'[t][Len(inbox'[t])].type \in SignalTypes)
               => SignalOwner(inbox'[t][Len(inbox'[t])]) \in Range(room) ]_vars

\* C35: an endpoint left in the middle of an exchange by a peer that departed
\* still accepts the offer of the next initiator: when a member that has its
\* pc and is not making an offer handles the offer of the other member, and it
\* is in have-remote-offer by the offer of a socket that has disconnected, or
\* in have-local-offer by an offer of its own that the other member never got,
\* the offer becomes its remote description and it goes on to answer.
LeftByDepartedPeer(s, u) ==
    \/ /\ sig[s] = "have-remote-offer"
       /\ remoteDesc[s].owner \in Sockets
       /\ conn[remoteDesc[s].owner] = "closed"
    \/ /\ sig[s] = "have-local-offer"
       /\ ~ignoreOffer[u]
       /\ remoteDesc[u] = NoDesc
       /\ CountType(inbox[u], "signal:offer") = 0

C35_OfferAcceptedAfterDeparture ==
    [][ \A s \in Range(room) : \A u \in Range(room) \ {s} :
           (/\ Handled(s, {"signal:offer"})
            /\ Head(inbox[s]).sdp = Sdp("offer", u)
            /\ pc[s]
            /\ ~makingOffer[s]
            /\ LeftByDepartedPeer(s, u))
               => /\ sig'[s] = "have-remote-offer"
                  /\ remoteDesc'[s] = Sdp("offer", u)
                  /\ answerTask'[s] = "answering" ]_vars

\* C36: for each socket id at most one rotation timer is pending, and it is
\* the timer of a stream that is still live: the timer armed for a stream is
\* cancelled when the stream is retired by rotation, error recovery or cleanup.
C36_OneTimerPerSocket ==
    \A s \in Sockets :
        /\ Cardinality(TimersOf(timers, s)) <= 1
        /\ \A x \in TimersOf(timers, s) : ~streams[s][x[2]].destroyed

\* C37: an event of a stream that was already retired changes nothing for its
\* peer: a late 'error' leaves the registry entry and the streams of the
\* socket id as they were (the live stream is neither destroyed nor replaced,
\* and no session appears for a peer that has disconnected), and a late
\* 'data' arms no timer.
C37_LateEventsHarmless ==
    [][ \A s \in Sockets, k \in 1..MaxStreams :
           /\ (\E th \in BOOLEAN : LateStreamError(s, k, th))
                 => /\ recognizeStreams'[s] = recognizeStreams[s]
                    /\ streams'[s] = streams[s]
           /\ (\E a \in BOOLEAN, f \in BOOLEAN : LateStreamData(s, k, a, f))
                 => timers' = timers ]_vars


\* C38: the RTCPeerConnection exists whenever the page handles 'initiate',
\* 'signal:offer' or 'signal:answer': no such handler runs while pc is unset,
\* however the fetch inside createPeerConnection() and the socket events
\* interleave
C38_PcExistsWhenHandled ==
    [][ \A s \in Sockets :
           Handled(s, {"initiate", "signal:offer", "signal:answer"}) => pc'[s] ]_vars


\* C39: a transcript recognised from the audio of one peer is emitted only to
\* the socket of that peer's socket id: a step adds a 'transcript' to the
\* events of a socket only as a 'data' event of a stream of that socket id,
\* and such an event changes the events of no other socket
C39_TranscriptOnlyToOwner ==
    [][ \A t \in Sockets :
           /\ CountType(inbox'[t], "transcript") > CountType(inbox[t], "transcript")
                 => \E k \in 1..MaxStreams, a \in BOOLEAN, f \in BOOLEAN :
                       StreamData(t, k, a, f) \/ LateStreamData(t, k, a, f)
           /\ (\E k \in 1..MaxStreams, a \in BOOLEAN, f \in BOOLEAN :
                   StreamData(t, k, a, f) \/ LateStreamData(t, k, a, f))
                 => \A u \in Sockets \ {t} : inbox'[u] = inbox[u] ]_vars

\* two peers are connected with a bound stream each; one has received a
\* transcript of its own audio, the other has received none
C39_Witness ==
    \E s \in Sockets : \E u \in Sockets \ {s} :
        /\ conn[s] = "connected" /\ conn[u] = "connected"
        /\ HasEntry(recognizeStreams, s) /\ recognizeStreams[s].socket
        /\ HasEntry(recognizeStreams, u) /\ recognizeStreams[u].socket
        /\ CountType(inbox[s], "transcript") = 1
        /\ CountType(inbox[u], "transcript") = 0


\* C40: a prediction of the deaf page is emitted to the server once: when the
\* hearing page's echo of it arrives over the data channel, the deaf page
\* emits nothing, so no prediction goes round between the two pages again
C40_EchoNotEmittedAgain ==
    [][ OnChannelAslPrediction(DeafPage) => inbox' = inbox ]_vars

====
